---- MODULE Spec2Model ----
(***************************************************************************)
(* A model of the KBUS message bus as it is driven and observed by         *)
(* kbus.py: open /dev/kbus0 instances ("files"), the bind/unbind ioctls,   *)
(* writing a Message to a file, reading the next message from a file, and  *)
(* closing a file.  The behaviour of the bus is taken from what the        *)
(* wrappers and tests of kbus.py do and assert; where kbus.py is silent    *)
(* the bus follows the written specification of the device.                *)
(***************************************************************************)
EXTENDS Integers, Sequences, FiniteSets, TLC

\* ---------------------------------------------------------------- bounds
\* The bindings the bus may hold, the unread messages a file may hold and
\* the ids the bus may give out, in the part of the state space explored.
MaxBindings == 3
MaxQueue == 2
MaxId == 2

\* The tests open /dev/kbus0 at most twice at a time (f1 and f2).
NumFiles == 2

\* ---------------------------------------------------------------- values
\* Open /dev/kbus0 instances; a file's bound-as id is its index.
Files == 1 .. NumFiles

\* Message names used by the tests; "" is the zero-length name.
Names == {"$.Fred", "$.Jim"}
BindNames == Names \cup {""}

\* Payloads, as arrays of 32-bit words: none, or the one word of 'data'.
NoData == << >>
Data == <<1635017060>>

\* One line of /proc/kbus/bindings: (id, replier, guaranteed, name).
Binding == [fd : Files, replier : BOOLEAN, guaranteed : BOOLEAN, name : Names]

\* The parts of a message, as Message.extract() names them.
NewMessage(name, data) ==
    [id |-> 0, to |-> 0, from |-> 0, flags |-> 0, name |-> name, data |-> data]

\* Message.length: the number of 32-bit words of the encoded message.
MsgWords(m) == 8 + ((Len(m.name) + 3) \div 4) + Len(m.data)

\* Message.equivalent: do a and b differ in their id and from fields only?
equivalent(a, b) ==
    IF MsgWords(a) # MsgWords(b) THEN FALSE
    ELSE [a EXCEPT !.id = b.id, !.from = b.from] = b

VARIABLES
    mode,       \* mode[f]: "closed", or the mode file f was opened with
    bindings,   \* the bus's bindings: how many of each Binding it holds
    queue,      \* queue[f]: the messages waiting to be read from file f
    nextId,     \* the id the bus gives to the next message it queues
    last,       \* the last call made and what it returned
    route,      \* the write that is being delivered step by step, if any
    waiting,    \* waiting[f]: the length asked for by the read of file f
                \* that waits for a message, 0 when no read waits
    recorded    \* TestKernelModule.bindings: for each open file, the
                \* (replier, guaranteed, name) entries the tests keep

vars == <<mode, bindings, queue, nextId, last, route, waiting, recorded>>

\* ---------------------------------------------------------------- helpers
RECURSIVE SumOver(_, _)
SumOver(S, bag) ==
    IF S = {} THEN 0
    ELSE LET b == CHOOSE x \in S : TRUE
         IN  bag[b] + SumOver(S \ {b}, bag)

\* The number of bindings a table holds.
BagSize(bag) == SumOver(Binding, bag)

EmptyBag == [b \in Binding |-> 0]

\* A faulty matching: every binding matches, whatever its name.
MatchAnyName(name) == bindings

\* The bindings (replier or listener) whose name is exactly `name`.
MatchBindings(name) ==
    [b \in Binding |-> IF b.name = name THEN bindings[b] ELSE 0]

\* A faulty test: any binding to `name`, listener or replier, counts.
AnyoneBound(name) ==
    \E b \in Binding : b.name = name /\ bindings[b] > 0

\* Is some file bound as replier for exactly `name`?
ReplierExists(name) ==
    \E b \in Binding : b.name = name /\ b.replier /\ bindings[b] > 0

\* Every order in which the bindings of a table can be walked.
RECURSIVE Orders(_)
Orders(bag) ==
    IF \A b \in Binding : bag[b] = 0 THEN {<< >>}
    ELSE UNION { { <<b>> \o s : s \in Orders([bag EXCEPT ![b] = @ - 1]) }
                 : b \in {x \in Binding : bag[x] > 0} }

\* What a call leaves in `last` for its caller: the call, its errno ("OK"
\* when no IOError is raised) and the messages it returned.
Call(op, f, arg, err, ret) ==
    [op |-> op, fd |-> f, arg |-> arg, err |-> err, ret |-> ret]

\* No call has returned a result that its caller has yet to take.
Idle == Call("none", 0, << >>, "OK", << >>)

\* No write is part-way through its delivery.
NoRoute == [fd |-> 0, arg |-> << >>, todo |-> << >>, done |-> << >>]

\* ---------------------------------------------------------------- actions
Init ==
    /\ mode = [f \in Files |-> "closed"]
    /\ bindings = EmptyBag
    /\ queue = [f \in Files |-> << >>]
    /\ nextId = 1
    /\ last = Idle
    /\ route = NoRoute
    /\ waiting = [f \in Files |-> 0]
    /\ recorded = [f \in {} |-> << >>]

\* TestKernelModule.attach: open('/dev/kbus0', mode).
Attach(f, m) ==
    /\ last = Idle
    /\ mode[f] = "closed"
    /\ mode' = [mode EXCEPT ![f] = m]
    /\ last' = Call("attach", f, <<m>>, "OK", << >>)
    /\ recorded' = [g \in DOMAIN recorded \cup {f} |->
                        IF g = f THEN << >> ELSE recorded[g]]
    /\ UNCHANGED <<bindings, queue, nextId, route, waiting>>

\* A faulty close: the replier bindings of the file stay behind.
WithoutListenersOf(bag, f) ==
    [b \in Binding |-> IF b.fd = f /\ ~b.replier THEN 0 ELSE bag[b]]

\* A table after every binding of file f has been taken out of it.
WithoutFile(bag, f) ==
    [b \in Binding |-> IF b.fd = f THEN 0 ELSE bag[b]]

\* TestKernelModule.detach: f.close(); the bus forgets the file's bindings
\* and its unread messages.
Detach(f) ==
    /\ last = Idle
    /\ mode[f] # "closed"
    /\ mode' = [mode EXCEPT ![f] = "closed"]
    /\ bindings' = WithoutFile(bindings, f)
    /\ queue' = [queue EXCEPT ![f] = << >>]
    /\ last' = Call("detach", f, << >>, "OK", << >>)
    /\ recorded' = [g \in DOMAIN recorded \ {f} |-> recorded[g]]
    /\ UNCHANGED <<nextId, route, waiting>>

\* A faulty bind: the zero-length name is let in.
BindErrnoAnyName(name, replier) ==
    IF replier /\ name # "" /\ ReplierExists(name) THEN "EADDRINUSE" ELSE "OK"

\* A faulty bind: a second replier is let in.
BindErrnoNoCollision(name, replier) ==
    IF name = "" THEN "EINVAL" ELSE "OK"

\* The errno of bind(f, name, replier, guaranteed), "OK" when it succeeds.
BindErrno(name, replier) ==
    IF name = "" THEN "EINVAL"
    ELSE IF replier /\ ReplierExists(name) THEN "EADDRINUSE"
    ELSE "OK"

\* bind(f, name, replier, guaranteed): the KBUS_IOC_BIND ioctl.
Bind(f, name, replier, guaranteed) ==
    /\ last = Idle
    /\ mode[f] # "closed"
    /\ LET err == BindErrno(name, replier)
           b == [fd |-> f, replier |-> replier, guaranteed |-> guaranteed,
                 name |-> name]
       IN  /\ bindings' = IF err = "OK"
                          THEN [bindings EXCEPT ![b] = @ + 1]
                          ELSE bindings
           /\ last' = Call("bind", f, <<name, replier, guaranteed>>, err, << >>)
    /\ UNCHANGED <<mode, queue, nextId, route, waiting, recorded>>

\* A faulty unbind: a binding that differs in the guaranteed flag matches.
UnbindErrnoLoose(f, name, replier, guaranteed) ==
    IF name = "" THEN "EINVAL"
    ELSE IF \A g \in BOOLEAN :
               bindings[[fd |-> f, replier |-> replier,
                         guaranteed |-> g, name |-> name]] = 0
         THEN "EINVAL"
    ELSE "OK"

\* The errno of unbind(f, name, replier, guaranteed).
UnbindErrno(f, name, replier, guaranteed) ==
    IF name = "" THEN "EINVAL"
    ELSE IF bindings[[fd |-> f, replier |-> replier,
                      guaranteed |-> guaranteed, name |-> name]] = 0
         THEN "EINVAL"
    ELSE "OK"

\* A faulty removal: every duplicate of the binding goes.
RemoveAll(bag, b) == [bag EXCEPT ![b] = 0]

\* A table after one binding b has been taken out of it.
RemoveOne(bag, b) == [bag EXCEPT ![b] = @ - 1]

\* unbind(f, name, replier, guaranteed): the KBUS_IOC_UNBIND ioctl.
Unbind(f, name, replier, guaranteed) ==
    /\ last = Idle
    /\ mode[f] # "closed"
    /\ LET err == UnbindErrno(f, name, replier, guaranteed)
           b == [fd |-> f, replier |-> replier, guaranteed |-> guaranteed,
                 name |-> name]
       IN  /\ bindings' = IF err = "OK"
                          THEN RemoveOne(bindings, b)
                          ELSE bindings
           /\ last' = Call("unbind", f, <<name, replier, guaranteed>>, err, << >>)
    /\ UNCHANGED <<mode, queue, nextId, route, waiting, recorded>>

\* A faulty queue: the copy is put at the head.
PushFront(q, copy) == <<copy>> \o q

\* A queue after `copy` has been added to it.
Push(q, copy) == Append(q, copy)

\* The files whose queue holds `room` messages or more: they are short of
\* room for more.
Pressed(room) == {f \in Files : Len(queue[f]) >= room}

\* A faulty choice: the copy for any binding of a file short of room may be
\* dropped.
DroppedAny(b, pressed) == b.fd \in pressed

\* Is the copy for binding b dropped, given the files that are treated as
\* short of room?  Only a copy for a binding that does not ask for
\* guaranteed delivery may be dropped.
Dropped(b, pressed) == ~b.guaranteed /\ b.fd \in pressed

\* A faulty delivery: only the first binding gets its copy.
DeliverFirst(q, order, id, m, pressed) ==
    IF order = << >> THEN q
    ELSE LET b == Head(order)
             copy == [msg |-> [m EXCEPT !.id = id],
                      guaranteed |-> b.guaranteed]
         IN  [q EXCEPT ![b.fd] = Append(@, copy)]

\* A faulty delivery: every copy of one write carries the same id.
RECURSIVE DeliverSameId(_, _, _, _, _)
DeliverSameId(q, order, id, m, pressed) ==
    IF order = << >> THEN q
    ELSE LET b == Head(order)
             copy == [msg |-> [m EXCEPT !.id = id],
                      guaranteed |-> b.guaranteed]
         IN  DeliverSameId([q EXCEPT ![b.fd] = Append(@, copy)],
                           Tail(order), id, m, pressed)

\* The queues after one copy of m has been queued for each binding of
\* `order` in turn, the copies taking the ids from `id` on.  The copies that
\* are dropped for want of room use up their ids all the same.
RECURSIVE Deliver(_, _, _, _, _)
Deliver(q, order, id, m, pressed) ==
    IF order = << >> THEN q
    ELSE LET b == Head(order)
             copy == [msg |-> [m EXCEPT !.id = id],
                      guaranteed |-> b.guaranteed]
         IN  Deliver(IF Dropped(b, pressed) THEN q
                     ELSE [q EXCEPT ![b.fd] = Push(@, copy)],
                     Tail(order), id + 1, m, pressed)

\* A faulty count: one write uses one id, however many bindings match.
IdsUsedOne(k) == 1

\* The number of ids one write of a message matching k bindings uses.
IdsUsed(k) == k

\* A faulty write: a message nobody is bound to is accepted.
WriteErrnoUnchecked(f, name) ==
    IF mode[f] = "rb" THEN "EBADF" ELSE "OK"

\* A faulty write: the bindings are looked up before the open mode.
WriteErrnoLookupFirst(f, name) ==
    IF BagSize(MatchBindings(name)) = 0 THEN "EADDRNOTAVAIL"
    ELSE IF mode[f] = "rb" THEN "EBADF"
    ELSE "OK"

\* The errno of writing a message named `name` to file f.
WriteErrno(f, name) ==
    IF mode[f] = "rb" THEN "EBADF"
    ELSE IF BagSize(MatchBindings(name)) = 0 THEN "EADDRNOTAVAIL"
    ELSE "OK"

\* A faulty router: it puts the sender in the `to` field as well.
SenderAndTo(m, f) == [m EXCEPT !.from = f, !.to = f]

\* The message m as the bus queues it when file f has written it: the
\* `from` field names the sender.
Sender(m, f) == [m EXCEPT !.from = f]

\* Message(name, data).to_file(f): write one whole message and flush.
\* Any of the files whose queue holds `room` messages may be treated as
\* short of room.
Write(f, name, data, room) ==
    /\ last = Idle
    /\ mode[f] # "closed"
    /\ LET err == WriteErrno(f, name)
           match == MatchBindings(name)
           k == BagSize(match)
           m == Sender(NewMessage(name, data), f)
       IN  /\ last' = Call("write", f, <<name, data>>, err, << >>)
           /\ IF err = "OK"
              THEN /\ \E order \in Orders(match) :
                      \E pressed \in SUBSET Pressed(room) :
                          queue' = Deliver(queue, order, nextId, m, pressed)
                   /\ nextId' = nextId + IdsUsed(k)
              ELSE UNCHANGED <<queue, nextId>>
    /\ UNCHANGED <<mode, bindings, route, waiting, recorded>>

\* A faulty length: that of the message queued last.
NextLenOfLast(f) ==
    IF queue[f] = << >> THEN 0
    ELSE 4 * MsgWords(queue[f][Len(queue[f])].msg)

\* next_len(f): the KBUS_IOC_NEXTLEN ioctl.
NextLen(f) ==
    IF queue[f] = << >> THEN 0 ELSE 4 * MsgWords(Head(queue[f]).msg)

\* What is left of a queue after its head has been read.
PopHead(q) == Tail(q)

\* A faulty test of the length: any length will do.
AnyLength(f, n) == FALSE

\* Is n not the length of the message at the head of the queue of f?
WrongLength(f, n) == n # NextLen(f)

\* A faulty read: the length asked for is tested when no message waits.
ReadErrnoStrict(f, n) ==
    IF WrongLength(f, n) THEN "EINVAL" ELSE "OK"

\* The errno of f.read(n): with no message waiting the read is no error,
\* whatever n is.
ReadErrno(f, n) ==
    IF queue[f] = << >> THEN "OK"
    ELSE IF WrongLength(f, n) THEN "EINVAL"
    ELSE "OK"

\* f.read(n).
Read(f, n) ==
    /\ last = Idle
    /\ mode[f] # "closed"
    /\ LET err == ReadErrno(f, n)
       IN  IF err # "OK"
           THEN /\ last' = Call("read", f, <<n>>, err, << >>)
                /\ UNCHANGED queue
           ELSE IF queue[f] = << >>
           THEN /\ last' = Call("read", f, <<n>>, "OK", << >>)
                /\ UNCHANGED queue
           ELSE /\ last' = Call("read", f, <<n>>, "OK", <<Head(queue[f]).msg>>)
                /\ queue' = [queue EXCEPT ![f] = PopHead(@)]
    /\ UNCHANGED <<mode, bindings, nextId, route, waiting, recorded>>

\* A call of next_len(f) by a test.
NextLenCall(f) ==
    /\ last = Idle
    /\ mode[f] # "closed"
    /\ last' = Call("next_len", f, << >>, "OK", <<NextLen(f)>>)
    /\ UNCHANGED <<mode, bindings, queue, nextId, route, waiting, recorded>>

\* A faulty reset: only the bindings of the calling file go.
ResetOwnBindings(f) == WithoutFile(bindings, f)

\* The bindings left when file f has reset the bus: none.
ResetBindings(f) == EmptyBag

\* The KBUS_IOC_RESET ioctl: every binding and every unread message goes.
Reset(f) ==
    /\ last = Idle
    /\ mode[f] # "closed"
    /\ bindings' = ResetBindings(f)
    /\ queue' = [g \in Files |-> << >>]
    /\ last' = Call("reset", f, << >>, "OK", << >>)
    /\ UNCHANGED <<mode, nextId, route, waiting, recorded>>

\* The caller takes the result of its call (the value returned, or the
\* IOError that check_IOError catches) and goes on.
Return ==
    /\ last # Idle
    /\ last' = Idle
    /\ UNCHANGED <<mode, bindings, queue, nextId, route, waiting, recorded>>

\* The byte count of every message the tests send, and the 1 of f.read(1).
ReadSizes(wns, ds) ==
    {1} \cup {4 * MsgWords(NewMessage(n, d)) : n \in wns, d \in ds}

\* One call of kbus.py, or the return of one.  The arguments are drawn from
\* the given sets: open modes (ms), the names each file binds (bns[f]),
\* replier (rs) and guaranteed (gs) flags, names to send to (wns), payloads
\* to send (ds).  Only the
\* part of the state space with at most mb bindings, mi ids given out and mq
\* unread messages per file is explored.
Calls(ms, bns, rs, gs, wns, ds, mb, mi, mq, room) ==
    \/ \E f \in Files, m \in ms : Attach(f, m)
    \/ \E f \in Files : Detach(f)
    \/ \E f \in Files, r \in rs, g \in gs : \E n \in bns[f] :
           Bind(f, n, r, g) /\ BagSize(bindings') <= mb
    \/ \E f \in Files, r \in rs, g \in gs : \E n \in bns[f] :
           Unbind(f, n, r, g)
    \/ \E f \in Files, n \in wns, d \in ds :
           /\ Write(f, n, d, room)
           /\ nextId' <= mi + 1
           /\ \A g \in Files : Len(queue'[g]) <= mq
    \/ \E f \in Files, n \in ReadSizes(wns, ds) : Read(f, n)
    \/ \E f \in Files : Reset(f)
    \/ Return

\* The calls with the payload 'data' in every message sent.
Step(ms, bns, rs, gs, wns, mb, mi, mq, room) ==
    Calls(ms, bns, rs, gs, wns, {Data}, mb, mi, mq, room)

\* Every file may bind every name in ns.  In the specifications below
\* the queues are never short of room, as in the tests, except where said.
AnyFile(ns) == [f \in Files |-> ns]

\* Default (best-effort) bindings and the names of the tests.
Next ==
    Step({"wb+"}, AnyFile(Names), BOOLEAN, {FALSE}, Names,
         MaxBindings, MaxId, MaxQueue, MaxQueue + 1)

Spec == Init /\ [][Next]_vars

\* Every kind of bind and unbind call, the zero-length name included, around
\* the sending and reading of one message.
NextBind ==
    Step({"wb+"}, AnyFile(BindNames), BOOLEAN, BOOLEAN, Names,
         MaxBindings, 1, MaxBindings, MaxBindings + 1)

SpecBind == Init /\ [][NextBind]_vars

\* The calls of test_read_write_2files in any order and number: the first
\* file binds '$.Fred' and the second '$.Jim', as replier or as listener,
\* and both write to either name.
NextFan ==
    Step({"wb+"}, [f \in Files |-> IF f = 1 THEN {"$.Fred"} ELSE {"$.Jim"}],
         BOOLEAN, {FALSE}, Names, MaxBindings + 1, MaxId + 2, MaxQueue + 1,
         MaxQueue + 2)

SpecFan == Init /\ [][NextFan]_vars

\* Listeners only, and enough ids for two writes that each reach both files.
NextOrder ==
    Step({"wb+"}, AnyFile(Names), {FALSE}, {FALSE}, Names,
         MaxBindings - 1, MaxId + 2, MaxQueue, MaxQueue + 1)

SpecOrder == Init /\ [][NextOrder]_vars

\* Listeners for '$.Fred' that ask for guaranteed delivery beside listeners
\* that do not, and queues that are short of room once they hold MaxQueue
\* messages.
NextGuaranteed ==
    Step({"wb+"}, AnyFile({"$.Fred"}), {FALSE}, BOOLEAN, {"$.Fred"},
         MaxBindings - 1, MaxId + 2, MaxQueue + 1, MaxQueue)

SpecGuaranteed == Init /\ [][NextGuaranteed]_vars

\* Files opened 'rb' beside files opened 'wb+', as in test_readonly.
NextReadOnly ==
    Step({"rb", "wb+"}, AnyFile(Names), {FALSE}, {FALSE}, Names,
         MaxBindings - 1, MaxId, MaxQueue, MaxQueue + 1)

SpecReadOnly == Init /\ [][NextReadOnly]_vars

\* Messages with and without a payload, of different lengths, written and
\* read by both files, with reads of the length of either and of one and
\* of two bytes, and with calls of next_len.
NextRead ==
    \/ Calls({"wb+"}, AnyFile(Names), {FALSE}, {FALSE}, Names, {NoData, Data},
             MaxBindings - 1, MaxId, MaxQueue, MaxQueue + 1)
    \/ \E f \in Files : NextLenCall(f)
    \/ \E f \in Files : Read(f, 2)

SpecRead == Init /\ [][NextRead]_vars

\* ------------------------------------------------ /proc/kbus/bindings
\* The line of /proc/kbus/bindings for one binding, without the device
\* number: the id the file is bound as, R or L, T or F, and the name.
ProcLine(b) ==
    [id |-> b.fd, rep |-> IF b.replier THEN "R" ELSE "L",
     all |-> IF b.guaranteed THEN "T" ELSE "F", name |-> b.name]

\* The lines of /proc/kbus/bindings when the bus walks its bindings in the
\* order s.
ProcLines(s) == [i \in DOMAIN s |-> ProcLine(s[i])]

\* read_bindings: the lines as a list of tuples (id, replier, guaranteed,
\* name).
read_bindings(lines) ==
    [i \in DOMAIN lines |->
        <<lines[i].id, lines[i].rep = "R", lines[i].all = "T", lines[i].name>>]

\* The order of the names as strings.
NameOrder == <<"$.Fred", "$.Jim">>
NameRank(n) == CHOOSE i \in DOMAIN NameOrder : NameOrder[i] = n
BoolRank(v) == IF v THEN 1 ELSE 0

\* The order of tuples (id, replier, guaranteed, name): a < b.
TupleLess(a, b) ==
    \/ a[1] < b[1]
    \/ a[1] = b[1] /\ BoolRank(a[2]) < BoolRank(b[2])
    \/ a[1] = b[1] /\ a[2] = b[2] /\ BoolRank(a[3]) < BoolRank(b[3])
    \/ a[1] = b[1] /\ a[2] = b[2] /\ a[3] = b[3]
          /\ NameRank(a[4]) < NameRank(b[4])

\* The sorted list s with one more element x.
RECURSIVE Insert(_, _)
Insert(s, x) ==
    IF s = << >> THEN <<x>>
    ELSE IF TupleLess(x, Head(s)) THEN <<x>> \o s
    ELSE <<Head(s)>> \o Insert(Tail(s), x)

\* A faulty sort: an element that is in the list already is left out, as
\* when sets are compared.
RECURSIVE SortNoDuplicates(_)
SortNoDuplicates(s) ==
    IF s = << >> THEN << >>
    ELSE LET r == SortNoDuplicates(Tail(s))
         IN  IF \E i \in DOMAIN r : r[i] = Head(s) THEN r
             ELSE Insert(r, Head(s))

\* list.sort(), as bindings_match uses it before it compares two lists.
RECURSIVE Sort(_)
Sort(s) == IF s = << >> THEN << >> ELSE Insert(Sort(Tail(s)), Head(s))

\* What bindings_match compares with the list it is given: the sorted
\* list read from /proc/kbus/bindings when the table is `bag`.
Listing(bag) ==
    Sort(read_bindings(ProcLines(CHOOSE s \in Orders(bag) : TRUE)))

\* Every kind of bind and unbind call by both files, as in
\* test_bindings_match1, where no message is sent with success.
NextListing ==
    Step({"wb+"}, AnyFile(BindNames), BOOLEAN, BOOLEAN, Names,
         MaxBindings, 0, 1, 2)

SpecListing == Init /\ [][NextListing]_vars

\* ------------------------------------------------ delivery step by step
\* The bus-wide lock is free: no write is part-way through its delivery.
BusFree == route = NoRoute

\* A faulty call: it does not take the bus-wide lock.
Unlocked(call) == call

\* A call that changes the bindings takes the bus-wide lock for its whole
\* duration, so it waits while a write is being delivered.
Locked(call) == BusFree /\ call

\* A write takes the bus-wide lock and fixes the bindings it will deliver
\* to; a write that fails returns at once.
RouteBegin(f, name, data, mi, mq) ==
    /\ last = Idle
    /\ BusFree
    /\ mode[f] # "closed"
    /\ LET err == WriteErrno(f, name)
           match == MatchBindings(name)
       IN  IF err = "OK"
           THEN /\ nextId + BagSize(match) <= mi + 1
                /\ \A g \in Files :
                       Len(queue[g])
                         + SumOver({b \in Binding : b.fd = g}, match) <= mq
                /\ \E order \in Orders(match) :
                       route' = [fd |-> f, arg |-> <<name, data>>,
                                 todo |-> order, done |-> << >>]
                /\ UNCHANGED last
           ELSE /\ last' = Call("write", f, <<name, data>>, err, << >>)
                /\ UNCHANGED route
    /\ UNCHANGED <<mode, bindings, queue, nextId, waiting, recorded>>

\* The write in progress queues the copy for the next of its bindings.
RoutePush ==
    /\ route # NoRoute
    /\ route.todo # << >>
    /\ LET b == Head(route.todo)
           m == Sender(NewMessage(route.arg[1], route.arg[2]), route.fd)
       IN  /\ queue' = Deliver(queue, <<b>>, nextId, m, {})
           /\ nextId' = nextId + IdsUsed(1)
           /\ route' = [route EXCEPT !.todo = Tail(@), !.done = Append(@, b)]
    /\ UNCHANGED <<mode, bindings, last, waiting, recorded>>

\* The write in progress has queued all its copies: it gives up the lock
\* and returns.
RouteEnd ==
    /\ last = Idle
    /\ route # NoRoute
    /\ route.todo = << >>
    /\ last' = Call("write", route.fd, route.arg, "OK", << >>)
    /\ route' = NoRoute
    /\ UNCHANGED <<mode, bindings, queue, nextId, waiting, recorded>>

\* The calls of the tests made by concurrent processes, a write being
\* delivered one queue at a time under the bus-wide lock.  Reading takes
\* only the lock of the reader's own queue.
StepRoute(bns, rs, wns, mb, mi, mq) ==
    \/ \E f \in Files : Attach(f, "wb+")
    \/ \E f \in Files : Locked(Detach(f))
    \/ \E f \in Files, r \in rs : \E n \in bns[f] :
           Locked(Bind(f, n, r, FALSE)) /\ BagSize(bindings') <= mb
    \/ \E f \in Files, r \in rs : \E n \in bns[f] :
           Locked(Unbind(f, n, r, FALSE))
    \/ \E f \in Files, n \in wns : RouteBegin(f, n, Data, mi, mq)
    \/ RoutePush
    \/ RouteEnd
    \/ \E f \in Files, n \in ReadSizes(wns, {Data}) : Read(f, n)
    \/ \E f \in Files : Locked(Reset(f))
    \/ Return

NextRoute ==
    StepRoute(AnyFile(Names), {FALSE}, Names, MaxBindings, MaxId + 1, MaxQueue)

SpecRoute == Init /\ [][NextRoute]_vars

\* Repliers and listeners, writes delivered one queue at a time, and
\* resets.
NextReset ==
    StepRoute(AnyFile(Names), BOOLEAN, Names,
              MaxBindings - 1, MaxId, MaxQueue)

SpecReset == Init /\ [][NextReset]_vars

\* ------------------------------------------------------ blocking reads
\* The length in bytes of the messages sent where reads may wait.
DataLength == 4 * MsgWords(NewMessage("$.Fred", Data))

\* f.read(n) on a file opened for blocking reads, with no message waiting:
\* the caller is suspended and the call does not return.
BlockingRead(f, n) ==
    /\ last = Idle
    /\ mode[f] = "blocking"
    /\ waiting[f] = 0
    /\ queue[f] = << >>
    /\ waiting' = [waiting EXCEPT ![f] = n]
    /\ UNCHANGED <<mode, bindings, queue, nextId, last, route, recorded>>

\* A faulty wake-up: one message is not enough to wake the reader.
TwoMessagesWait(f) == Len(queue[f]) >= 2

\* Is a message available to the read of file f that waits?
MessageWaits(f) == queue[f] # << >>

\* The read of file f that was waiting returns the message that has become
\* available, as a read that had not waited would.
WakeRead(f) ==
    /\ last = Idle
    /\ waiting[f] # 0
    /\ mode[f] # "closed"
    /\ MessageWaits(f)
    /\ LET n == waiting[f]
           err == ReadErrno(f, n)
       IN  IF err # "OK"
           THEN /\ last' = Call("read", f, <<n>>, err, << >>)
                /\ UNCHANGED queue
           ELSE /\ last' = Call("read", f, <<n>>, "OK", <<Head(queue[f]).msg>>)
                /\ queue' = [queue EXCEPT ![f] = PopHead(@)]
    /\ waiting' = [waiting EXCEPT ![f] = 0]
    /\ UNCHANGED <<mode, bindings, nextId, route, recorded>>

\* The file was closed while its read was waiting: the read returns
\* nothing.
AbortRead(f) ==
    /\ last = Idle
    /\ waiting[f] # 0
    /\ mode[f] = "closed"
    /\ last' = Call("read", f, <<waiting[f]>>, "OK", << >>)
    /\ waiting' = [waiting EXCEPT ![f] = 0]
    /\ UNCHANGED <<mode, bindings, queue, nextId, route, recorded>>

\* The calls made on files opened for blocking reads.  The caller of a
\* read that waits makes no other call on that file meanwhile, but the file
\* may be closed under it; a file is opened again only when the read on the
\* file closed before has returned.
StepBlocking(bns, wns, mb, mi, mq) ==
    \/ \E f \in Files : waiting[f] = 0 /\ Attach(f, "blocking")
    \/ \E f \in Files : Detach(f)
    \/ \E f \in Files : \E n \in bns[f] :
           /\ waiting[f] = 0
           /\ Bind(f, n, FALSE, FALSE)
           /\ BagSize(bindings') <= mb
    \/ \E f \in Files : \E n \in bns[f] :
           waiting[f] = 0 /\ Unbind(f, n, FALSE, FALSE)
    \/ \E f \in Files, n \in wns :
           /\ waiting[f] = 0
           /\ Write(f, n, Data, mq + 1)
           /\ nextId' <= mi + 1
           /\ \A g \in Files : Len(queue'[g]) <= mq
    \/ \E f \in Files :
           waiting[f] = 0 /\ queue[f] # << >> /\ Read(f, DataLength)
    \/ \E f \in Files : BlockingRead(f, DataLength)
    \/ \E f \in Files : WakeRead(f)
    \/ \E f \in Files : AbortRead(f)
    \/ \E f \in Files : waiting[f] = 0 /\ Reset(f)
    \/ Return

NextBlocking ==
    StepBlocking(AnyFile({"$.Fred"}), {"$.Fred"},
                 MaxBindings - 1, MaxId, MaxQueue)

\* A read that waits and can return does return, however the other calls
\* fall, and every caller takes the result of its call.
SpecBlocking ==
    /\ Init
    /\ [][NextBlocking]_vars
    /\ WF_vars(Return)
    /\ \A f \in Files : SF_vars(WakeRead(f)) /\ SF_vars(AbortRead(f))

\* ------------------------------------------------------ the Message codec
\* A Message is an array of 32-bit words: start guard, id, to, from, flags,
\* the length of the name in bytes, the length of the data in words, the
\* name padded with NUL bytes to whole words, the data, and the end guard.
START_GUARD == 1937072747
END_GUARD == 1802659187

\* The longest name, in bytes, and the longest payload, in words, that the
\* messages built below carry.
MaxNameLen == 6
MaxDataLen == 2

\* The Python values handed to Message(): None, a string (its bytes), an
\* array.array('L') (its words), a tuple, a list, or a Message (its array).
PyNone == [type |-> "None", val |-> << >>]
Str(bytes) == [type |-> "str", val |-> bytes]
Arr(words) == [type |-> "array", val |-> words]
Tup(items) == [type |-> "tuple", val |-> items]
Lst(items) == [type |-> "list", val |-> items]
Msg(words) == [type |-> "Message", val |-> words]

\* What a call that may raise gives: the exception raised ("OK" for none)
\* and the value returned.
Raised(err) == [err |-> err, val |-> << >>]
Returned(val) == [err |-> "OK", val |-> val]

\* One word of an array.array('L', string): four bytes, lowest first.
Word(b) == b[1] + 256 * b[2] + 65536 * b[3] + 16777216 * b[4]

\* The words of a string of whole words.
RECURSIVE ToWords(_)
ToWords(s) ==
    IF Len(s) < 4 THEN << >>
    ELSE <<Word(SubSeq(s, 1, 4))>> \o ToWords(SubSeq(s, 5, Len(s)))

\* array.tostring(): the bytes of the words, lowest first.
RECURSIVE tostring(_)
tostring(words) ==
    IF words = << >> THEN << >>
    ELSE LET w == Head(words)
         IN  <<w % 256, (w \div 256) % 256, (w \div 65536) % 256,
               (w \div 16777216) % 256>> \o tostring(Tail(words))

\* array.array('L', x): a string must be a whole number of words long.
ArrayL(x) ==
    IF x.type = "str"
    THEN IF Len(x.val) % 4 # 0 THEN Raised("ValueError")
         ELSE Returned(ToWords(x.val))
    ELSE IF x.type \in {"array", "list"} THEN Returned(x.val)
    ELSE Raised("TypeError")

\* The name padded with NUL bytes to a whole number of words.
Pad(name) == name \o [i \in 1 .. ((4 - (Len(name) % 4)) % 4) |-> 0]

\* Message._from_data: the array built from the parts of a message.
from_data(name, data, to, from_, flags) ==
    LET d == IF data.type = "None" THEN Returned(<< >>)
             ELSE IF data.type = "array" THEN Returned(data.val)
             ELSE ArrayL(data)
    IN  IF d.err # "OK" THEN d
        ELSE Returned(<<START_GUARD, 0, to, from_, flags, Len(name),
                        Len(d.val)>>
                      \o ArrayL(Str(Pad(name))).val
                      \o d.val
                      \o <<END_GUARD>>)

\* A faulty check: the lengths are not compared with the array's length.
checkGuardsOnly(array) ==
    IF array = << >> THEN "IndexError"
    ELSE IF array[1] # START_GUARD THEN "AssertionError"
    ELSE IF array[Len(array)] # END_GUARD THEN "AssertionError"
    ELSE IF Len(array) < 7 THEN "IndexError"
    ELSE IF array[6] < 3 THEN "ValueError"
    ELSE "OK"

\* Message._check: the exception raised for an array that does not look
\* like a message, "OK" for one that does.
check(array) ==
    IF array = << >> THEN "IndexError"
    ELSE IF array[1] # START_GUARD THEN "AssertionError"
    ELSE IF array[Len(array)] # END_GUARD THEN "AssertionError"
    ELSE IF Len(array) < 7 THEN "IndexError"
    ELSE IF array[6] < 3 THEN "ValueError"
    ELSE IF 8 + ((array[6] + 3) \div 4) + array[7] # Len(array)
         THEN "AssertionError"
    ELSE "OK"

\* arg.startswith('$.')
startswith(bytes) == Len(bytes) >= 2 /\ bytes[1] = 36 /\ bytes[2] = 46

\* Message.__init__ up to the check: the array taken from the argument.
FromArg(arg, data, to, from_, flags) ==
    IF arg.type = "Message" THEN Returned(arg.val)
    ELSE IF arg.type \in {"tuple", "list"}
    THEN IF Len(arg.val) # 6 THEN Raised("ValueError")
         ELSE from_data(arg.val[5].val, arg.val[6], arg.val[2], arg.val[3],
                        arg.val[4])
    ELSE IF arg.type = "str" /\ startswith(arg.val)
    THEN from_data(arg.val, data, to, from_, flags)
    ELSE IF arg.val # << >> THEN ArrayL(arg)
    ELSE Raised("ValueError")

\* Message(arg, data, to, from_, flags): the exception raised, or the array
\* of the Message made.
Message(arg, data, to, from_, flags) ==
    LET a == FromArg(arg, data, to, from_, flags)
    IN  IF a.err # "OK" THEN a
        ELSE IF check(a.val) # "OK" THEN Raised(check(a.val))
        ELSE a

\* The first n items of a sequence, or all of it if it is shorter.
Slice(s, from, to) ==
    SubSeq(s, from, IF to < Len(s) THEN to ELSE Len(s))

\* A faulty extract: the padding stays on the name.
extractPadded(array) ==
    LET words == (array[6] + 3) \div 4
    IN  <<array[2], array[3], array[4], array[5],
          Str(tostring(Slice(array, 8, 7 + words))),
          Arr(Slice(array, 8 + words, 7 + words + array[7]))>>

\* Message.extract of a Message: (id, to, from_, flags, name, data_array).
extract(array) ==
    LET words == (array[6] + 3) \div 4
    IN  <<array[2], array[3], array[4], array[5],
          Str(Slice(tostring(Slice(array, 8, 7 + words)), 1, array[6])),
          Arr(Slice(array, 8 + words, 7 + words + array[7]))>>

\* Message.__eq__
MessageEq(a, b) == a = b

\* A faulty comparison: the `to` fields are not compared either.
equivalentButTo(a, b) ==
    IF Len(a) # Len(b) THEN FALSE
    ELSE LET parts1 == extract(a)
             parts2 == extract(b)
         IN  [parts1 EXCEPT ![1] = parts2[1], ![2] = parts2[2],
                            ![3] = parts2[3]] = parts2

\* Message.equivalent of two Messages, given their arrays.
MessageEquivalent(a, b) ==
    IF Len(a) # Len(b) THEN FALSE
    ELSE LET parts1 == extract(a)
             parts2 == extract(b)
         IN  [parts1 EXCEPT ![1] = parts2[1], ![3] = parts2[3]] = parts2

\* The names given to Message(): '$.' and the letters after it, cut to n
\* bytes, and the same letters without the '$.'.
Name(n) == [i \in 1 .. n |-> IF i = 1 THEN 36 ELSE IF i = 2 THEN 46 ELSE 64 + i]
Bare(n) == [i \in 1 .. n |-> 64 + i]
CodecNames ==
    {Name(n) : n \in 0 .. MaxNameLen} \cup {Bare(n) : n \in 1 .. MaxNameLen}

\* The payloads given to Message(): None, strings of every length up to
\* MaxDataLen words, and arrays of up to MaxDataLen words, of letters and
\* of small numbers.
DataBytes(n) == [i \in 1 .. n |-> 97 + ((i - 1) % 26)]
Payloads ==
    {PyNone}
      \cup {Str(DataBytes(n)) : n \in 0 .. 4 * MaxDataLen}
      \cup {Arr(ToWords(DataBytes(4 * n))) : n \in 0 .. MaxDataLen}
      \cup {Arr([i \in 1 .. n |-> i]) : n \in 1 .. MaxDataLen}

\* The to, from and flags fields given to Message().
Tos == {0, 1}
Froms == {0, 2}
FlagSets == {0, 4}

\* The arrays of the Messages that can be made from a name and its parts.
Built ==
    {r.val : r \in {m \in {Message(Str(n), d, t, f, fl) :
                              n \in CodecNames, d \in Payloads,
                              t \in Tos, f \in Froms, fl \in FlagSets} :
                       m.err = "OK"}}

\* Those messages as the bus hands them on with an id of its own.
Stamped == {[m EXCEPT ![2] = i] : m \in Built, i \in 0 .. 1}

\* Arrays that are not messages: a wrong guard at either end, a name or
\* data length that does not account for the array, a name too short, an
\* array cut short.
Broken(m) ==
    { [m EXCEPT ![1] = END_GUARD],
      [m EXCEPT ![Len(m)] = START_GUARD],
      [m EXCEPT ![6] = @ + 4],
      [m EXCEPT ![6] = 2],
      [m EXCEPT ![7] = @ + 1],
      SubSeq(m, 1, Len(m) - 1),
      <<START_GUARD, END_GUARD>> }
Buffers == Built \cup UNION {Broken(m) : m \in Built}

\* m = Message(arg, data, to, from_, flags)
Construct(arg, data, to, from_, flags) ==
    /\ last = Idle
    /\ LET r == Message(arg, data, to, from_, flags)
       IN  last' = Call("Message", 0, <<arg, data, to, from_, flags>>, r.err,
                        IF r.err = "OK" THEN <<r.val>> ELSE << >>)
    /\ UNCHANGED <<mode, bindings, queue, nextId, route, waiting, recorded>>

\* m.extract()
Extract(m) ==
    /\ last = Idle
    /\ last' = Call("extract", 0, <<m>>, "OK", extract(m))
    /\ UNCHANGED <<mode, bindings, queue, nextId, route, waiting, recorded>>

\* a.equivalent(b): what it returns, and a and b after the call.
Equivalent(a, b) ==
    /\ last = Idle
    /\ last' = Call("equivalent", 0, <<a, b>>, "OK",
                    <<MessageEquivalent(a, b), a, b>>)
    /\ UNCHANGED <<mode, bindings, queue, nextId, route, waiting, recorded>>

\* The constructions of a Message, by each kind of argument, and extract.
NextCodec ==
    \/ \E n \in CodecNames, d \in Payloads :
          \E t \in Tos, f \in Froms, fl \in FlagSets :
             Construct(Str(n), d, t, f, fl)
    \/ \E n \in CodecNames, d \in Payloads :
          \E t \in Tos, f \in Froms, fl \in FlagSets :
             Construct(Tup(<<0, t, f, fl, Str(n), d>>), PyNone, 0, 0, 0)
    \/ \E n \in CodecNames, d \in Payloads :
          \E t \in Tos, f \in Froms, fl \in FlagSets :
             Construct(Lst(<<0, t, f, fl, Str(n), d>>), PyNone, 0, 0, 0)
    \/ \E n \in CodecNames : Construct(Tup(<<0, 0, 0, 0, Str(n)>>), PyNone, 0, 0, 0)
    \/ \E m \in Stamped : Construct(Msg(m), PyNone, 0, 0, 0)
    \/ \E m \in Buffers : Construct(Arr(m), PyNone, 0, 0, 0)
    \/ \E m \in Buffers : Construct(Str(tostring(m)), PyNone, 0, 0, 0)
    \/ \E m \in Stamped : Extract(m)
    \/ Return

SpecCodec == Init /\ [][NextCodec]_vars

\* The messages compared: those with the longer names and the shorter
\* payloads, some of them of the same length.
Compared == {m \in Stamped : m[6] >= MaxNameLen - 1 /\ m[7] < MaxDataLen}

\* Pairs of messages, compared.
NextEquivalent ==
    \/ \E a \in Compared, b \in Compared : Equivalent(a, b)
    \/ Return

SpecEquivalent == Init /\ [][NextEquivalent]_vars

\* ------------------------------------------- the bookkeeping of the tests
\* TestKernelModule.bind: bind, and then one more entry for the file.
TestBind(f, name, replier, guaranteed) ==
    /\ last = Idle
    /\ mode[f] # "closed"
    /\ LET err == BindErrno(name, replier)
           b == [fd |-> f, replier |-> replier, guaranteed |-> guaranteed,
                 name |-> name]
       IN  /\ bindings' = IF err = "OK"
                          THEN [bindings EXCEPT ![b] = @ + 1]
                          ELSE bindings
           /\ recorded' = IF err = "OK"
                          THEN [recorded EXCEPT
                                  ![f] = Append(@, <<replier, guaranteed, name>>)]
                          ELSE recorded
           /\ last' = Call("bind", f, <<name, replier, guaranteed>>, err, << >>)
    /\ UNCHANGED <<mode, queue, nextId, route, waiting>>

\* The list l without the first of its entries for `name`, if it has one.
RECURSIVE DeleteFirst(_, _)
DeleteFirst(l, name) ==
    IF l = << >> THEN << >>
    ELSE IF Head(l)[3] = name THEN Tail(l)
    ELSE <<Head(l)>> \o DeleteFirst(Tail(l), name)

\* TestKernelModule.unbind: unbind, and then the first entry of the file
\* for that name is deleted.
TestUnbind(f, name, replier, guaranteed) ==
    /\ last = Idle
    /\ mode[f] # "closed"
    /\ LET err == UnbindErrno(f, name, replier, guaranteed)
           b == [fd |-> f, replier |-> replier, guaranteed |-> guaranteed,
                 name |-> name]
       IN  /\ bindings' = IF err = "OK"
                          THEN RemoveOne(bindings, b)
                          ELSE bindings
           /\ recorded' = IF err = "OK"
                          THEN [recorded EXCEPT ![f] = DeleteFirst(@, name)]
                          ELSE recorded
           /\ last' = Call("unbind", f, <<name, replier, guaranteed>>, err, << >>)
    /\ UNCHANGED <<mode, queue, nextId, route, waiting>>

\* The list _check_bindings makes of the entries kept for the files in S:
\* (file, replier, guaranteed, name).
RECURSIVE Expected(_, _)
Expected(S, dict) ==
    IF S = {} THEN << >>
    ELSE LET f == CHOOSE g \in S : TRUE
         IN  [i \in DOMAIN dict[f] |->
                 <<f, dict[f][i][1], dict[f][i][2], dict[f][i][3]>>]
               \o Expected(S \ {f}, dict)

\* bindings_match: is the list, sorted, the sorted list read from
\* /proc/kbus/bindings?
bindings_match(list) == Sort(list) = Listing(bindings)

\* TestKernelModule._check_bindings
CheckBindings ==
    /\ last = Idle
    /\ last' = Call("_check_bindings", 0, << >>,
                    IF bindings_match(Expected(DOMAIN recorded, recorded))
                    THEN "OK" ELSE "AssertionError", << >>)
    /\ UNCHANGED <<mode, bindings, queue, nextId, route, waiting, recorded>>

\* The tests' attach, bind, unbind and detach of both files, with every
\* kind of binding and the name no bind accepts, and _check_bindings.
NextHarness ==
    \/ \E f \in Files : Attach(f, "wb+")
    \/ \E f \in Files : Detach(f)
    \/ \E f \in Files, n \in BindNames, r \in BOOLEAN, g \in BOOLEAN :
          TestBind(f, n, r, g) /\ BagSize(bindings') <= MaxBindings
    \/ \E f \in Files, n \in BindNames, r \in BOOLEAN, g \in BOOLEAN :
          TestUnbind(f, n, r, g)
    \/ CheckBindings
    \/ Return

SpecHarness == Init /\ [][NextHarness]_vars

\* ---------------------------------------------------------------- claims
\* The number of replier bindings the bus holds for `name`.
Repliers(name) ==
    SumOver({b \in Binding : b.name = name /\ b.replier}, bindings)

\* C1: in every reachable state, whatever calls led to it, the bus holds at
\* most one replier binding for any one name.
SingleReplier == \A n \in Names : Repliers(n) <= 1

\* A second replier bind for a name has just been refused while the first
\* replier binding, held by another file, is in place.
SingleReplierWitness ==
    /\ last.op = "bind" /\ last.err = "EADDRINUSE"
    /\ \E b \in Binding :
           /\ b.name = last.arg[1] /\ b.replier /\ b.fd # last.fd
           /\ bindings[b] = 1
    /\ Repliers(last.arg[1]) = 1

\* C2: a bind call fails with EADDRINUSE exactly when it asks for a replier
\* binding and a replier binding for that very name is held at that moment,
\* by any file; a listener bind of a non-empty name always succeeds; and a
\* successful bind adds the binding asked for.
BindInUseIff ==
    [][ last'.op = "bind" =>
          LET n == last'.arg[1]
              r == last'.arg[2]
              b == [fd |-> last'.fd, replier |-> r,
                    guaranteed |-> last'.arg[3], name |-> n]
          IN  /\ (last'.err = "EADDRINUSE") <=>
                     (r /\ n # "" /\ Repliers(n) >= 1)
              /\ (~r /\ n # "") => last'.err = "OK"
              /\ (r /\ n # "" /\ Repliers(n) = 0) => last'.err = "OK"
              /\ last'.err = "OK" =>
                     bindings' = [bindings EXCEPT ![b] = @ + 1]
      ]_vars

\* A listener bind has just succeeded for a name that had a replier and a
\* listener binding already.
BindInUseWitness ==
    /\ last.op = "bind" /\ last.err = "OK" /\ ~last.arg[2]
    /\ Repliers(last.arg[1]) = 1
    /\ BagSize(MatchBindings(last.arg[1])) = 3

\* A write has just succeeded.
Sent == last'.op = "write" /\ last'.err = "OK"

\* The copies that this step has added to the queue of file f.
Gained(f) == SubSeq(queue'[f], Len(queue[f]) + 1, Len(queue'[f]))

\* The ids of the copies that this step has added to any queue.
GainedIds ==
    UNION { {Gained(f)[i].msg.id : i \in DOMAIN Gained(f)} : f \in Files }

\* The number of copies that this step has added to the queues.
RECURSIVE GainedCount(_)
GainedCount(S) ==
    IF S = {} THEN 0
    ELSE LET f == CHOOSE x \in S : TRUE
         IN  Len(Gained(f)) + GainedCount(S \ {f})

\* The number of bindings, of file f or of any file, for `name`.
BoundTo(f, name) ==
    SumOver({b \in Binding : b.fd = f /\ b.name = name}, bindings)

\* C3: a write to a name that no file is bound to, as replier or listener,
\* fails with EADDRNOTAVAIL and changes neither the id counter, nor any
\* queue, nor the bindings.
UnboundWriteNoEffect ==
    [][ ( /\ last'.op = "write"
          /\ mode[last'.fd] = "wb+"
          /\ \A f \in Files : BoundTo(f, last'.arg[1]) = 0 )
        => /\ last'.err = "EADDRNOTAVAIL"
           /\ nextId' = nextId
           /\ queue' = queue
           /\ bindings' = bindings
      ]_vars

\* A write has just failed with EADDRNOTAVAIL for a sender that is bound to
\* another name, on a bus that has given out an id and holds an unread
\* message.
UnboundWriteWitness ==
    /\ last.op = "write" /\ last.err = "EADDRNOTAVAIL"
    /\ \E n \in Names : BoundTo(last.fd, n) > 0
    /\ nextId > 1
    /\ \E f \in Files : queue[f] # << >>

IsPrefix(s, t) == Len(s) <= Len(t) /\ SubSeq(t, 1, Len(s)) = s

\* C6: a successful write of a message named N adds copies of it at the tail
\* of the queue of exactly those files that hold a binding, replier or
\* listener, for exactly N; what was queued stays as it was, and the queue
\* of a file with no binding for N does not change.
ExactDestinations ==
    [][ Sent =>
          \A f \in Files :
             /\ IsPrefix(queue[f], queue'[f])
             /\ (Gained(f) # << >>) <=> (BoundTo(f, last'.arg[1]) > 0)
             /\ \A i \in DOMAIN Gained(f) :
                    /\ Gained(f)[i].msg.name = last'.arg[1]
                    /\ Gained(f)[i].msg.data = last'.arg[2]
                    /\ Gained(f)[i].msg.from = last'.fd
      ]_vars

\* A write has just put a copy into the queue of its own sender, while the
\* other file, bound to another name only, keeps the unread message it had.
ExactDestinationsWitness ==
    /\ last.op = "write" /\ last.err = "OK"
    /\ \E g \in Files, n \in Names :
           /\ g # last.fd /\ n # last.arg[1]
           /\ BoundTo(g, n) > 0 /\ BoundTo(g, last.arg[1]) = 0
           /\ Len(queue[g]) = 1 /\ queue[g][1].msg.name = n
    /\ Len(queue[last.fd]) >= 1
    /\ queue[last.fd][Len(queue[last.fd])].msg.from = last.fd
    /\ queue[last.fd][Len(queue[last.fd])].msg.name = last.arg[1]

\* Every unread copy, as a pair of the file holding it and its place.
Unread == UNION { {<<f, i>> : i \in DOMAIN queue[f]} : f \in Files }

\* The ids of unread copies are ids the bus has given out: not zero, below
\* the counter, and no two copies share one.
IdsGivenOnce ==
    /\ nextId >= 1
    /\ \A p \in Unread :
           /\ queue[p[1]][p[2]].msg.id >= 1
           /\ queue[p[1]][p[2]].msg.id < nextId
    /\ \A p, q \in Unread :
           p # q => queue[p[1]][p[2]].msg.id # queue[q[1]][q[2]].msg.id

\* C7: ids are never zero, no id is given twice, and every id a write gives
\* is greater than every id given before it.
IdsIncrease ==
    /\ []IdsGivenOnce
    /\ [][ /\ nextId' >= nextId
           /\ \A id \in GainedIds : id >= nextId /\ id < nextId'
         ]_vars

\* Both files have written, one after the other, and the copy of the later
\* write carries the greater id.
IdsIncreaseWitness ==
    \E f \in Files :
       /\ Len(queue[f]) = 2
       /\ queue[f][1].msg.from # queue[f][2].msg.from
       /\ queue[f][1].msg.id = 1 /\ queue[f][2].msg.id = 2
       /\ nextId = 3

\* C5: a successful write to a name with k matching bindings puts one copy
\* for each matching binding into the queue of the file that holds it, and
\* uses k consecutive ids: a file that holds all k bindings gets k copies
\* with the ids N, N+1, ... N+k-1, and the next write starts at N+k.
CopyPerBinding ==
    [][ Sent =>
          LET n == last'.arg[1]
              k == BagSize(MatchBindings(n))
          IN  /\ \A f \in Files :
                     /\ Len(Gained(f)) = BoundTo(f, n)
                     /\ BoundTo(f, n) = k =>
                            \A i \in 1 .. k :
                               Gained(f)[i].msg.id = nextId + i - 1
              /\ nextId' = nextId + k
      ]_vars

\* test_read_write_2files: the first file, holding a replier and two
\* listener bindings for '$.Fred', has three unread copies with the ids 1, 2
\* and 3, and the write to '$.Jim' that followed has put id 4 into the
\* queue of the second file.
CopyPerBindingWitness ==
    /\ last.op = "write" /\ last.err = "OK" /\ last.arg[1] = "$.Jim"
    /\ bindings[[fd |-> 1, replier |-> TRUE, guaranteed |-> FALSE,
                 name |-> "$.Fred"]] = 1
    /\ bindings[[fd |-> 1, replier |-> FALSE, guaranteed |-> FALSE,
                 name |-> "$.Fred"]] = 2
    /\ Len(queue[1]) = 3
    /\ \A i \in 1 .. 3 :
           queue[1][i].msg.id = i /\ queue[1][i].msg.name = "$.Fred"
    /\ Len(queue[2]) = 1
    /\ queue[2][1].msg.id = 4 /\ queue[2][1].msg.name = "$.Jim"

\* The ids of the unread messages of every file ascend from head to tail.
Ascending ==
    \A f \in Files : \A i, j \in DOMAIN queue[f] :
       i < j => queue[f][i].msg.id < queue[f][j].msg.id

\* C8: every queue holds its messages in ascending id order; a read returns
\* the head of the queue, which is the oldest message in it; and the copies
\* of a write come after every message already queued anywhere, so that two
\* queues hold the messages of two writes in the same order.
QueueFifo ==
    /\ []Ascending
    /\ [][ /\ \A f \in Files :
                (last'.op = "read" /\ last'.fd = f /\ last'.ret # << >>) =>
                    /\ queue[f] # << >>
                    /\ last'.ret = <<Head(queue[f]).msg>>
                    /\ queue'[f] = Tail(queue[f])
                    /\ \A i \in DOMAIN queue'[f] :
                           queue'[f][i].msg.id > last'.ret[1].id
           /\ Sent =>
                \A p \in Unread, id \in GainedIds :
                   queue[p[1]][p[2]].msg.id < id
         ]_vars

\* Both files were sent a message by the first file and then one by the
\* second; one file has just read the first of them, and the other file
\* still holds both, in the order in which they were written.
QueueFifoWitness ==
    /\ last.op = "read" /\ last.ret # << >> /\ last.ret[1].from = 1
    /\ \E f, g \in Files :
           /\ f = last.fd /\ g # f
           /\ Len(queue[f]) = 1 /\ queue[f][1].msg.from = 2
           /\ Len(queue[g]) = 2
           /\ queue[g][1].msg.from = 1 /\ queue[g][2].msg.from = 2
           /\ queue[g][1].msg.id < last.ret[1].id
           /\ queue[g][2].msg.id > queue[f][1].msg.id

\* Is copy c among the unread messages of file f after this step?
StillQueued(f, c) == \E j \in DOMAIN queue'[f] : queue'[f][j] = c

\* The number of copies gained by file f that were queued for a binding
\* asking for guaranteed delivery.
GainedGuaranteed(f) ==
    Cardinality({i \in DOMAIN Gained(f) : Gained(f)[i].guaranteed})

\* C10: a write queues a copy for every matching binding that asks for
\* guaranteed delivery, however many messages the queue holds, and such a
\* copy stays in the queue of its file until that file reads it, or is
\* closed, or the bus is reset; the read that returns it removes it, so
\* that it is not read again.
GuaranteedKept ==
    [][ /\ \A f \in Files : \A i \in DOMAIN queue[f] :
            queue[f][i].guaranteed =>
               \/ /\ StillQueued(f, queue[f][i])
                  /\ ~(last'.op = "read" /\ last'.fd = f
                        /\ last'.ret = <<queue[f][i].msg>>)
               \/ /\ i = 1
                  /\ last'.op = "read" /\ last'.fd = f
                  /\ last'.ret = <<queue[f][i].msg>>
                  /\ ~StillQueued(f, queue[f][i])
               \/ last'.op = "detach" /\ last'.fd = f
               \/ last'.op = "reset"
        /\ Sent =>
              \A f \in Files :
                 GainedGuaranteed(f)
                   = SumOver({b \in Binding : /\ b.fd = f /\ b.guaranteed
                                               /\ b.name = last'.arg[1]},
                             bindings)
      ]_vars

\* A write has just succeeded to a name that one file is bound to twice,
\* once asking for guaranteed delivery and once not, when the queue of that
\* file was short of room: of the two copies only the guaranteed one is in
\* the queue, which now holds more than MaxQueue messages.
GuaranteedKeptWitness ==
    /\ last.op = "write" /\ last.err = "OK"
    /\ \E f \in Files :
          /\ SumOver({b \in Binding : b.fd = f /\ b.guaranteed}, bindings) = 1
          /\ SumOver({b \in Binding : b.fd = f /\ ~b.guaranteed}, bindings) = 1
          /\ BagSize(MatchBindings(last.arg[1])) = 2
          /\ Len(queue[f]) = MaxQueue + 1
          /\ queue[f][MaxQueue + 1].guaranteed
          /\ queue[f][MaxQueue + 1].msg.id >= nextId - 2
          /\ queue[f][MaxQueue].msg.id < nextId - 2

\* The bindings of a sequence of bindings, as a table.
BagOf(s) ==
    [b \in Binding |-> Cardinality({i \in DOMAIN s : s[i] = b})]

\* While a write is being delivered, the bindings it has delivered to and
\* those it has yet to deliver to are, together, the bindings that match
\* its name in the table as it is now.
RouteMatchesTable ==
    route # NoRoute =>
       BagOf(route.done \o route.todo) = MatchBindings(route.arg[1])

Asked(call) ==
    [fd |-> call.fd, replier |-> call.arg[2], guaranteed |-> call.arg[3],
     name |-> call.arg[1]]

\* C11: an unbind that succeeds takes exactly one binding out of the table,
\* one with the file, name, replier and guaranteed flags asked for, and
\* leaves every other binding, its duplicates included; so a binding made k
\* times can be unbound k times and no more: with none left the unbind fails
\* with EINVAL.
UnbindRemovesOne ==
    [][ (last'.op = "unbind" /\ last'.arg[1] # "") =>
          LET b == Asked(last')
          IN  /\ last'.err = "OK" =>
                    /\ bindings[b] >= 1
                    /\ bindings'[b] = bindings[b] - 1
                    /\ \A c \in Binding \ {b} : bindings'[c] = bindings[c]
                    /\ BagSize(bindings') = BagSize(bindings) - 1
              /\ bindings[b] >= 1 => last'.err = "OK"
              /\ bindings[b] = 0 => last'.err = "EINVAL"
      ]_vars

\* An unbind of a listener binding has just succeeded and the file still
\* holds two more bindings with the same name and flags.
UnbindRemovesOneWitness ==
    /\ last.op = "unbind" /\ last.err = "OK"
    /\ ~last.arg[2]
    /\ bindings[Asked(last)] = 2

\* C12: unbind fails with EINVAL exactly when the table holds no binding
\* with the file, name, replier flag and guaranteed flag asked for, whatever
\* bindings it holds that differ in one of them; an unbind that fails leaves
\* the table as it was.
UnbindExactMatch ==
    [][ last'.op = "unbind" =>
          /\ last'.err \in {"OK", "EINVAL"}
          /\ (last'.err = "EINVAL") <=>
                 (last'.arg[1] = "" \/ bindings[Asked(last')] = 0)
          /\ last'.err # "OK" => bindings' = bindings
      ]_vars

\* An unbind has just failed with EINVAL although the table holds the
\* bindings that differ from the one asked for only in the replier flag,
\* only in the guaranteed flag and only in the file.
UnbindExactMatchWitness ==
    /\ last.op = "unbind" /\ last.err = "EINVAL" /\ last.arg[1] # ""
    /\ LET b == Asked(last)
       IN  /\ bindings[[b EXCEPT !.replier = ~b.replier]] >= 1
           /\ bindings[[b EXCEPT !.guaranteed = ~b.guaranteed]] >= 1
           /\ \E g \in Files \ {b.fd} : bindings[[b EXCEPT !.fd = g]] >= 1

\* C13: bind and unbind of the zero-length name fail with EINVAL, and a
\* bind or unbind that fails, for whatever reason, changes neither the
\* bindings nor any queue nor the next id nor the open files, so that the
\* calls that follow find the bus as the failed call found it.
FailedControlNoEffect ==
    [][ last'.op \in {"bind", "unbind"} =>
          /\ last'.arg[1] = "" => last'.err = "EINVAL"
          /\ last'.err # "OK" =>
                 /\ last'.err \in {"EINVAL", "EADDRINUSE"}
                 /\ UNCHANGED <<mode, bindings, queue, nextId>>
      ]_vars

\* A bind of the zero-length name has just failed on a bus that holds
\* bindings and an unread message.
FailedControlNoEffectWitness ==
    /\ last.op = "bind" /\ last.arg[1] = "" /\ last.err = "EINVAL"
    /\ BagSize(bindings) >= 1
    /\ \E f \in Files : queue[f] # << >>

\* A file that is not open holds no binding and no unread message.
ClosedHoldsNothing ==
    \A f \in Files : mode[f] = "closed" =>
        /\ \A b \in Binding : b.fd = f => bindings[b] = 0
        /\ queue[f] = << >>

\* C14: closing a file takes all its bindings out of the table, replier
\* and listener, duplicates included, and throws its unread messages away,
\* in one step, and leaves the bindings and the messages of the other files
\* as they were; after it the table holds no binding of the closed file, a
\* name the closed file was replier for can be bound as replier by another
\* file, and a write to a name only the closed file was bound to fails with
\* EADDRNOTAVAIL.
DetachRemovesAll ==
    /\ []ClosedHoldsNothing
    /\ [][ last'.op = "detach" =>
             LET f == last'.fd
             IN  /\ last'.err = "OK"
                 /\ mode[f] # "closed" /\ mode'[f] = "closed"
                 /\ \A b \in Binding :
                        bindings'[b] = IF b.fd = f THEN 0 ELSE bindings[b]
                 /\ \A g \in Files :
                        queue'[g] = IF g = f THEN << >> ELSE queue[g]
                 /\ nextId' = nextId
         ]_vars
    /\ [][ /\ ( /\ last'.op = "bind" /\ last'.arg[1] # "" /\ last'.arg[2]
               /\ \A b \in Binding :
                     (b.name = last'.arg[1] /\ b.replier /\ bindings[b] > 0)
                        => mode[b.fd] = "closed" )
              => last'.err = "OK"
           /\ ( /\ last'.op = "write" /\ mode[last'.fd] = "wb+"
               /\ \A b \in Binding :
                     (b.name = last'.arg[1] /\ bindings[b] > 0)
                        => mode[b.fd] = "closed" )
              => last'.err = "EADDRNOTAVAIL"
         ]_vars

\* A file has just been closed; the other file is open, is still bound as
\* replier and as listener, and still holds an unread message that the
\* closed file had sent.
DetachRemovesAllWitness ==
    /\ last.op = "detach"
    /\ \E g \in Files \ {last.fd} :
          /\ mode[g] # "closed"
          /\ \E b \in Binding : b.fd = g /\ b.replier /\ bindings[b] > 0
          /\ \E b \in Binding : b.fd = g /\ ~b.replier /\ bindings[b] > 0
          /\ \E i \in DOMAIN queue[g] : queue[g][i].msg.from = last.fd

\* The tuple bindings_match expects for a binding.
TupleOf(b) == <<b.fd, b.replier, b.guaranteed, b.name>>

\* How many times the list l holds the tuple x.
Times(l, x) == Cardinality({i \in DOMAIN l : l[i] = x})

\* The sorted list read from /proc/kbus/bindings does not depend on the
\* order of the lines, it is in order, and it is empty while no file is
\* open.
ListingSorted ==
    LET l == Listing(bindings)
    IN  /\ \A s \in Orders(bindings) : Sort(read_bindings(ProcLines(s))) = l
        /\ \A i \in DOMAIN l : i > 1 => ~TupleLess(l[i], l[i - 1])
        /\ (\A f \in Files : mode[f] = "closed") => l = << >>

\* C15: the sorted list read from /proc/kbus/bindings holds, as many times
\* as it was bound and not unbound since, every binding of the files that
\* are open, and nothing else: it is empty at first, a bind that succeeds
\* adds its tuple once, an unbind that succeeds takes its tuple away once,
\* closing a file takes away the tuples of that file, and no failed call,
\* open, write or read changes it.
ListingIsBindings ==
    /\ []ListingSorted
    /\ [][ \A old \in {Listing(bindings)} : \A after \in {bindings'} :
           LET new == Listing(after)
               op == last'.op
               ok == last'.err = "OK"
           IN  /\ (op = "bind" /\ ok) =>
                     \A b \in Binding :
                        Times(new, TupleOf(b)) =
                           Times(old, TupleOf(b))
                             + (IF b = Asked(last') THEN 1 ELSE 0)
               /\ (op = "unbind" /\ ok) =>
                     \A b \in Binding :
                        Times(new, TupleOf(b)) =
                           Times(old, TupleOf(b))
                             - (IF b = Asked(last') THEN 1 ELSE 0)
               /\ op = "detach" =>
                     \A b \in Binding :
                        Times(new, TupleOf(b)) =
                           IF b.fd = last'.fd THEN 0
                           ELSE Times(old, TupleOf(b))
               /\ ~( \/ op \in {"bind", "unbind"} /\ ok
                     \/ op \in {"detach", "reset"} ) => new = old
               /\ \A i \in DOMAIN new : \E b \in Binding : new[i] = TupleOf(b)
         ]_vars

\* A listener bind has just succeeded for the third time with the same
\* name and flags, and the list holds its tuple three times.
ListingIsBindingsWitness ==
    /\ last.op = "bind" /\ last.err = "OK" /\ ~last.arg[2]
    /\ Times(Listing(bindings), TupleOf(Asked(last))) = 3

\* The message a write call wrote, as Message(name, data) built it.
Written(call) == NewMessage(call.arg[1], call.arg[2])

\* C16: the message read from a file is equivalent to the message that was
\* written: every copy queued by a write has the to field, the flags, the
\* name, the payload and the length of the message written, with the id the
\* bus gave it in place of 0 and the writing file in the from field; a
\* queued copy is not changed while it waits, and a read returns the copy at
\* the head as it was queued.
ReadEquivalent ==
    [][ /\ Sent =>
             \A f \in Files : \A i \in DOMAIN Gained(f) :
                LET m == Gained(f)[i].msg
                    w == Written(last')
                IN  /\ equivalent(w, m)
                    /\ m.to = w.to /\ m.flags = w.flags
                    /\ m.name = w.name /\ m.data = w.data
                    /\ MsgWords(m) = MsgWords(w)
                    /\ w.id = 0 /\ m.id # 0
                    /\ m.from = last'.fd
                    /\ m = [w EXCEPT !.id = m.id, !.from = m.from]
        /\ \A f \in Files : \A i \in DOMAIN queue[f] :
              \/ \E j \in DOMAIN queue'[f] : queue'[f][j] = queue[f][i]
              \/ last'.op \in {"detach", "reset"}
              \/ last'.op = "read" /\ last'.fd = f /\ i = 1
        /\ (last'.op = "read" /\ last'.ret # << >>) =>
              last'.ret = <<queue[last'.fd][1].msg>>
      ]_vars

\* A file has just read a message without payload that the other file
\* wrote, while a message with a payload waits behind it.
ReadEquivalentWitness ==
    /\ last.op = "read" /\ last.ret # << >>
    /\ last.ret[1].from # last.fd
    /\ last.ret[1].data = NoData
    /\ equivalent(NewMessage(last.ret[1].name, NoData), last.ret[1])
    /\ queue[last.fd] # << >>
    /\ queue[last.fd][1].msg.data = Data

\* C17: next_len returns 0 exactly when no message waits in the queue of
\* the file and otherwise the length in bytes, four times the number of
\* words, of the message at the head; the call changes nothing; and while a
\* message is at the head the value stays the same, whatever is queued
\* behind it, until that message is read or the queue is thrown away.
NextLenStable ==
    [][ /\ last'.op = "next_len" =>
             /\ last'.err = "OK"
             /\ (last'.ret = <<0>>) <=> (queue[last'.fd] = << >>)
             /\ queue[last'.fd] # << >> =>
                    last'.ret = <<4 * MsgWords(queue[last'.fd][1].msg)>>
             /\ UNCHANGED <<mode, bindings, queue, nextId>>
        /\ \A f \in Files :
              ( /\ queue[f] # << >>
                /\ ~(last'.op = "read" /\ last'.fd = f /\ last'.ret # << >>)
                /\ ~(last'.op = "detach" /\ last'.fd = f)
                /\ last'.op # "reset" )
              => /\ NextLen(f)' = NextLen(f)
                 /\ NextLen(f) > 0
      ]_vars

\* next_len has just returned the length of a message without payload that
\* is at the head of a queue, with a longer message queued behind it.
NextLenStableWitness ==
    /\ last.op = "next_len"
    /\ Len(queue[last.fd]) = 2
    /\ last.ret = <<4 * MsgWords(NewMessage("$.Jim", NoData))>>
    /\ queue[last.fd][2].msg.data = Data

\* C18: a read of n bytes from a file with a message waiting succeeds
\* only if n is the length in bytes of the message at the head, and then
\* returns that message and takes it, and it alone, off the queue; with any
\* other n it fails with EINVAL, returns nothing and leaves the queue as it
\* was.  No read changes another queue, the bindings or the next id.
ReadExactLength ==
    [][ (last'.op = "read" /\ queue[last'.fd] # << >>) =>
          LET f == last'.fd
              head == queue[f][1].msg
          IN  /\ IF last'.arg[1] = 4 * MsgWords(head)
                 THEN /\ last'.err = "OK"
                      /\ last'.ret = <<head>>
                      /\ queue'[f] = Tail(queue[f])
                 ELSE /\ last'.err = "EINVAL"
                      /\ last'.ret = << >>
                      /\ queue'[f] = queue[f]
              /\ \A g \in Files \ {f} : queue'[g] = queue[g]
              /\ UNCHANGED <<mode, bindings, nextId>>
      ]_vars

\* A read of the length of a message with a payload has just failed with
\* EINVAL on a file whose next message has no payload and is still there,
\* with a second message behind it.
ReadExactLengthWitness ==
    /\ last.op = "read" /\ last.err = "EINVAL"
    /\ last.arg[1] = 4 * MsgWords(NewMessage("$.Fred", Data))
    /\ Len(queue[last.fd]) = 2
    /\ queue[last.fd][1].msg.data = NoData

\* C19: a read from a file with no message waiting is not an error: for
\* every length asked for it returns nothing and changes nothing.
EmptyReadNoError ==
    [][ (last'.op = "read" /\ queue[last'.fd] = << >>) =>
          /\ last'.err = "OK"
          /\ last'.ret = << >>
          /\ UNCHANGED <<mode, bindings, queue, nextId>>
      ]_vars

\* A read of two bytes has just returned nothing from a file that has
\* read all the messages sent so far.
EmptyReadNoErrorWitness ==
    /\ last.op = "read" /\ last.arg[1] = 2
    /\ last.err = "OK" /\ last.ret = << >>
    /\ \A f \in Files : queue[f] = << >>
    /\ nextId = MaxId + 1
    /\ \E b \in Binding : b.fd = last.fd /\ bindings[b] > 0

\* The read of file f has just returned a message to its caller.
ReadReturned(f) == last.op = "read" /\ last.fd = f /\ last.ret # << >>

\* A read waits only on a file with no message waiting, and a read that
\* waited returns only with the message at the head of the queue, or, the
\* file having been closed, with nothing.
WaitsForMessage ==
    [][ \A f \in Files :
          /\ (waiting[f] = 0 /\ waiting'[f] # 0) =>
                 queue[f] = << >> /\ last' = last
          /\ (waiting[f] # 0 /\ waiting'[f] = 0) =>
                 /\ last'.op = "read" /\ last'.fd = f /\ last'.err = "OK"
                 /\ \/ /\ mode[f] # "closed"
                       /\ queue[f] # << >>
                       /\ last'.ret = <<queue[f][1].msg>>
                       /\ queue'[f] = Tail(queue[f])
                    \/ /\ mode[f] = "closed"
                       /\ last'.ret = << >>
      ]_vars

\* The file of a read that waits has been closed: the read returns, with
\* nothing.
ClosedReadReturns ==
    \A f \in Files :
       (waiting[f] # 0 /\ mode[f] = "closed")
          ~> (last.op = "read" /\ last.fd = f /\ last.ret = << >>)

ReadOnlyWrite ==
    [][ /\ (last'.op = "write" /\ mode[last'.fd] = "rb") =>
              /\ last'.err = "EBADF"
              /\ UNCHANGED <<mode, bindings, queue, nextId>>
        /\ (last'.op = "read" /\ mode[last'.fd] = "rb"
              /\ queue[last'.fd] = << >>) =>
              /\ last'.err = "OK" /\ last'.ret = << >>
              /\ UNCHANGED <<mode, bindings, queue, nextId>>
        /\ last'.err = "EBADF" =>
              last'.op = "write" /\ mode[last'.fd] = "rb"
      ]_vars

\* A write to a name that no file is bound to has just failed with EBADF on
\* a file opened 'rb', while the other file is bound to the other name and
\* has a message waiting.
ReadOnlyWriteWitness ==
    /\ last.op = "write" /\ last.err = "EBADF"
    /\ mode[last.fd] = "rb"
    /\ BagSize(MatchBindings(last.arg[1])) = 0
    /\ \E g \in Files \ {last.fd} :
          /\ mode[g] = "wb+"
          /\ queue[g] # << >>
          /\ \E b \in Binding : b.fd = g /\ bindings[b] > 0

\* C22: a reset clears the bus in one step: after it no file, the caller
\* or another, holds a binding or an unread message, and no write is part
\* way through its delivery, so that nothing is queued afterwards for a
\* binding that is gone; a write to an empty table fails with EADDRNOTAVAIL
\* and a replier bind to an empty table succeeds, whatever the name; and
\* in no state has a reset cleared only part of the bindings or messages.
ResetClearsAll ==
    [][ /\ last'.op = "reset" =>
              /\ last'.err = "OK"
              /\ \A b \in Binding : bindings'[b] = 0
              /\ \A f \in Files : queue'[f] = << >>
              /\ route = NoRoute /\ route' = NoRoute
              /\ mode' = mode
        /\ (last'.op = "write" /\ BagSize(bindings) = 0
              /\ mode[last'.fd] = "wb+") => last'.err = "EADDRNOTAVAIL"
        /\ (last'.op = "bind" /\ last'.arg[1] # "" /\ BagSize(bindings) = 0)
              => /\ last'.err = "OK"
                 /\ bindings'[Asked(last')] = 1
        /\ \A f \in Files :
              Len(queue'[f]) > Len(queue[f]) =>
                 \E b \in Binding :
                    /\ b.fd = f /\ bindings[b] > 0
                    /\ b.name = queue'[f][Len(queue'[f])].msg.name
        /\ ( /\ \/ \E b \in Binding : (bindings[b] > 0 /\ bindings'[b] = 0)
                 \/ \E f \in Files : (Len(queue[f]) >= 2 /\ queue'[f] = << >>)
              /\ last'.op \notin {"detach", "unbind"} )
              => /\ last'.op = "reset"
                 /\ BagSize(bindings') = 0
                 /\ \A f \in Files : queue'[f] = << >>
      ]_vars

\* A file has just reset the bus, all ids having been given to messages;
\* the other file is open too, and neither holds a binding or a message.
ResetClearsAllWitness ==
    /\ last.op = "reset"
    /\ \A f \in Files : mode[f] = "wb+"
    /\ nextId = MaxId + 1
    /\ BagSize(bindings) = 0
    /\ \A f \in Files : queue[f] = << >>

\* C23: a Message made from a name of at least 3 bytes beginning '$.', a
\* payload that is absent or a whole number of words, and any to, from_ and
\* flags is made without error, and its extract() is (0, to, from_, flags,
\* name, payload): the id is 0, the name comes back without its padding
\* whatever its length modulo 4, and an absent payload comes back as an
\* empty array.  Message(m.extract()) is then equal to m.
CodecRoundTrip ==
    ( /\ last.op = "Message"
      /\ last.arg[1].type = "str"
      /\ startswith(last.arg[1].val)
      /\ Len(last.arg[1].val) >= 3
      /\ last.arg[2].type = "str" => Len(last.arg[2].val) % 4 = 0 )
    => /\ last.err = "OK"
       /\ LET m == last.ret[1]
              parts == extract(m)
              data == last.arg[2]
          IN  /\ parts[1] = 0
              /\ parts[2] = last.arg[3]
              /\ parts[3] = last.arg[4]
              /\ parts[4] = last.arg[5]
              /\ parts[5] = last.arg[1]
              /\ parts[6].type = "array"
              /\ data.type = "None" => parts[6].val = << >>
              /\ data.type = "str" => tostring(parts[6].val) = data.val
              /\ data.type = "array" => parts[6].val = data.val
              /\ Message(Tup(parts), PyNone, 0, 0, 0) = Returned(m)
              /\ MessageEq(Message(Tup(parts), PyNone, 0, 0, 0).val, m)

\* A Message has been made from a name that needs three bytes of padding,
\* a payload of one word given as a string, and to, from_ and flags that
\* are not 0.
CodecRoundTripWitness ==
    /\ last.op = "Message"
    /\ last.err = "OK"
    /\ last.arg[1] = Str(Name(5))
    /\ last.arg[2] = Str(DataBytes(4))
    /\ last.arg[3] = 1 /\ last.arg[4] = 2 /\ last.arg[5] = 4
    /\ Len(last.ret[1]) = 11

\* The words of the buffer a Message is made from, when the argument is an
\* array or a string of whole words that is not a name.
BufferWords(arg) ==
    IF arg.type = "array" THEN arg.val ELSE ToWords(arg.val)

GivenName(call) ==
    IF call.arg[1].type = "str" THEN call.arg[1].val
    ELSE call.arg[1].val[5].val
GivenData(call) ==
    IF call.arg[1].type = "str" THEN call.arg[2] ELSE call.arg[1].val[6]

\* Message() was given a name string, a 6-tuple or a list of 6 items.
GivenParts(call) ==
    /\ call.op = "Message"
    /\ \/ call.arg[1].type = "str" /\ call.arg[1].val \in CodecNames
       \/ call.arg[1].type \in {"tuple", "list"} /\ Len(call.arg[1].val) = 6

\* C25: making a Message from a name string, a 6-tuple or a list raises an
\* exception and makes no Message if the name is shorter than 3 bytes or
\* does not begin with '$.', and if the payload is a string whose length in
\* bytes is not a multiple of 4.
EncodeRejects ==
    ( /\ GivenParts(last)
      /\ \/ Len(GivenName(last)) < 3
         \/ ~startswith(GivenName(last))
         \/ /\ GivenData(last).type = "str"
            /\ Len(GivenData(last).val) % 4 # 0 )
    => (last.err # "OK" /\ last.ret = << >>)

\* A Message has been made from a 6-tuple whose name does not begin with
\* '$.'; its extract() gives that name back.
EncodeAcceptsBareName ==
    /\ last.op = "Message"
    /\ last.arg[1].type = "tuple"
    /\ Len(last.arg[1].val) = 6
    /\ ~startswith(last.arg[1].val[5].val)
    /\ last.err = "OK"
    /\ extract(last.ret[1])[5] = last.arg[1].val[5]

\* C26: a.equivalent(b) is true exactly when a and b have the same length,
\* to, flags, name and payload, whatever their id and from fields; it holds
\* of a message and itself, holds of b and a when it holds of a and b, and
\* holds of a and c when it holds of a and b and of b and c; and the call
\* changes neither a nor b.
EquivalentIgnoresIdAndFrom ==
    last.op = "equivalent" =>
       LET a == last.arg[1]
           b == last.arg[2]
           pa == extract(a)
           pb == extract(b)
       IN  /\ last.ret[1] = ( /\ Len(a) = Len(b)
                              /\ pa[2] = pb[2]
                              /\ pa[4] = pb[4]
                              /\ pa[5] = pb[5]
                              /\ pa[6] = pb[6] )
           /\ last.ret[2] = a
           /\ last.ret[3] = b
           /\ MessageEquivalent(a, a)
           /\ MessageEquivalent(b, a) = last.ret[1]
           /\ last.ret[1] =>
                 \A c \in Compared :
                    MessageEquivalent(b, c) => MessageEquivalent(a, c)

\* Two messages that differ in their id and in their from field, and in
\* nothing else, have been found equivalent; they carry a padded name and
\* a payload.
EquivalentIgnoresIdAndFromWitness ==
    /\ last.op = "equivalent"
    /\ last.ret[1] = TRUE
    /\ last.arg[1][2] # last.arg[2][2]
    /\ last.arg[1][4] # last.arg[2][4]
    /\ last.arg[1][6] = MaxNameLen - 1
    /\ last.arg[1][7] = MaxDataLen - 1

\* How many times the list l holds the entry e.
RECURSIVE CountOf(_, _)
CountOf(l, e) ==
    IF l = << >> THEN 0
    ELSE (IF Head(l) = e THEN 1 ELSE 0) + CountOf(Tail(l), e)

\* C27: after any attach, bind, unbind and detach made through the
\* wrappers of TestKernelModule, failed calls included, the entries kept in
\* TestKernelModule.bindings are the bindings the bus holds, each as many
\* times as the bus holds it, and _check_bindings passes.
BookkeepingInStep ==
    /\ \A b \in Binding :
          bindings[b] = IF b.fd \in DOMAIN recorded
                        THEN CountOf(recorded[b.fd],
                                     <<b.replier, b.guaranteed, b.name>>)
                        ELSE 0
    /\ last.op = "_check_bindings" => last.err = "OK"

\* A file bound '$.Fred' as replier and then as listener and unbound the
\* listener: the bus holds the replier binding, the tests have kept the
\* listener entry, and _check_bindings has failed.
BookkeepingOutOfStep ==
    /\ last.op = "_check_bindings"
    /\ last.err = "AssertionError"
    /\ DOMAIN recorded = {1}
    /\ recorded[1] = << <<FALSE, FALSE, "$.Fred">> >>
    /\ bindings[[fd |-> 1, replier |-> TRUE, guaranteed |-> FALSE,
                 name |-> "$.Fred"]] = 1
    /\ BagSize(bindings) = 1

====
